---- MODULE Spec2Model ----
(***************************************************************************)
(* Model of the three scripts of the repository:                           *)
(*   callbacks2/circom-poseidon/gen_constants.py  (table extractor)        *)
(*   callbacks2/circom-poseidon/gen_rs.py         (reshape + renderer)     *)
(*   signal-cli/script.py                         (experiment harness)     *)
(* Text is modelled as sequences of tokens, decimal numerals as sequences  *)
(* of digits, Python ints as integers.                                     *)
(***************************************************************************)
EXTENDS Integers, Sequences, FiniteSets, TLC

VARIABLES
    prog,           \* the generator script that is running
    pc,             \* its position
    err,            \* name of the uncaught exception, "" when none
    data,           \* gen_constants.py: text of poseidon_constants_old.circom
    C_data, M_data, \* gen_constants.py: the two table regions
    match,          \* gen_constants.py: matches still to be iterated
    C, M,           \* the two tables (module globals of both generator scripts)
    constants_py,   \* the file constants.py
    lib_rs,         \* the file src/lib.rs
    indent_level,   \* gen_rs.py: global indent counter
    indent_low,     \* lowest value indent_level has taken in this process
    OUT,            \* gen_rs.py: the text of the two functions
    hpc,            \* position of script.py
    i,              \* script.py: loop variable of the main loop
    iteration_log,  \* script.py: record of the running iteration
    log_file,       \* the file experiments/timing_log.json
    ts_rep, ts,     \* script.py: timestamps read from the server logs
    exit_code,      \* exit code of the last client process
    faults          \* number of environment faults injected so far

genvars == <<prog, pc, err, data, C_data, M_data, match, C, M, constants_py, lib_rs,
             indent_level, indent_low, OUT>>
hvars == <<hpc, i, iteration_log, log_file, ts_rep, ts, exit_code, faults>>
vars == <<genvars, hvars>>

----------------------------------------------------------------------------
(* Bounds of the model *)

MaxDocLen == 4        \* longest enumerated small document, in tokens
MaxFaults == 2        \* most environment faults in one run of script.py
NUM_ITERATIONS == 2   \* script.py runs 100 iterations; the model runs this many

----------------------------------------------------------------------------
(* Program constants of gen_rs.py *)

FULL_ROUNDS == 8
PARTIAL_ROUNDS == <<56, 57, 56, 60, 60, 63, 64, 63, 60, 66, 60, 65, 70, 60, 64, 68>>
Selectors == 2..17

----------------------------------------------------------------------------
(* Python values and conversions *)

Min(a, b) == IF a < b THEN a ELSE b

RECURSIVE ParseDec(_)
\* int(digits): the integer a decimal numeral denotes
ParseDec(d) ==
    IF Len(d) = 0 THEN 0
    ELSE 10 * ParseDec(SubSeq(d, 1, Len(d) - 1)) + d[Len(d)]

\* a str that keeps the two lowest digits only
StrTruncating(n) == IF n < 10 THEN <<n>> ELSE <<(n \div 10) % 10, n % 10>>

RECURSIVE Str(_)
\* str(n) of a non-negative int: its decimal numeral, no leading zero
Str(n) == IF n < 10 THEN <<n>> ELSE Append(Str(n \div 10), n % 10)

\* a decimal integer literal the Python parser accepts: non-empty, and
\* a leading zero only in a numeral of zeros
IsNumLit(d) == Len(d) > 0 /\ (d[1] = 0 => \A j \in 1..Len(d) : d[j] = 0)

\* a Python list value carries its nesting depth: 1 for a list of ints,
\* 2 for a list of lists of ints
PyList(n, v) == [nest |-> n, v |-> v]

\* eval(c) of a list literal succeeds iff every numeral in it is well formed
EvalOk(nest, lit) ==
    IF nest = 1 THEN \A j \in 1..Len(lit) : IsNumLit(lit[j])
    ELSE \A r \in 1..Len(lit) : \A j \in 1..Len(lit[r]) : IsNumLit(lit[r][j])

Eval(nest, lit) ==
    IF nest = 1 THEN PyList(1, [j \in 1..Len(lit) |-> ParseDec(lit[j])])
    ELSE PyList(2, [r \in 1..Len(lit) |->
                      [j \in 1..Len(lit[r]) |-> ParseDec(lit[r][j])]])

\* repr of a list value: every int as its decimal numeral
ReprList(x) ==
    IF x.nest = 1 THEN PyList(1, [j \in 1..Len(x.v) |-> Str(x.v[j])])
    ELSE PyList(2, [r \in 1..Len(x.v) |->
                      [j \in 1..Len(x.v[r]) |-> Str(x.v[r][j])]])

\* repr of a dict: the set of its items, key and value as text
ReprDict(d) == {<<Str(k), ReprList(d[k])>> : k \in DOMAIN d}

\* the dict a dict display denotes when the module is imported
ParseDict(items) ==
    [k \in {ParseDec(it[1]) : it \in items} |->
        LET it == CHOOSE x \in items : ParseDec(x[1]) = k
        IN Eval(it[2].nest, it[2].v)]

EmptyDict == [k \in {} |-> 0]

----------------------------------------------------------------------------
(* Files *)

Absent == [exists |-> FALSE, text |-> <<>>]
File(text) == [exists |-> TRUE, text |-> text]
\* contents left behind by an earlier run
PriorConstants == File(<<[name |-> "prior", val |-> {}]>>)
PriorLib == File(<< <<0, "prior", <<>>>> >>)

----------------------------------------------------------------------------
(* Documents: the text of poseidon_constants_old.circom as tokens.  A token *)
(* is a region marker or one piece of text the pattern                     *)
(*   t == ([0-9]+)\) \{\s+return (.+?);                                    *)
(* matches, with its two groups: the selector numeral and the list literal *)

MarkerC == [k |-> "POSEIDON_C", sel |-> <<>>, nest |-> 0, lit |-> <<>>]
MarkerM == [k |-> "POSEIDON_M", sel |-> <<>>, nest |-> 0, lit |-> <<>>]
Match(sel, nest, lit) == [k |-> "match", sel |-> sel, nest |-> nest, lit |-> lit]

\* small documents: every token sequence up to MaxDocLen over these tokens
SmallSels == {<<2>>, <<0, 2>>, <<3>>}
SmallLits == {<< <<7>> >>, << <<3, 0, 0>>, <<0>> >>}
\* a literal the Python parser rejects (a numeral with a leading zero)
BadLit == << <<0, 1>> >>
SmallToks == {MarkerC, MarkerM, Match(<<2>>, 1, BadLit)}
             \cup {Match(s, 1, l) : s \in SmallSels, l \in SmallLits}
SmallDocs == UNION {[1..n -> SmallToks] : n \in 0..MaxDocLen}

\* full-size documents: both tables for every selector, one optional defect
\* the numerals of the tables: three digits, the first one not zero
CNum(tt, k) == <<1 + ((tt + k) % 9), (7 * k) % 10, (tt + 3 * k) % 10>>
MNum(tt, r, c) == <<1 + ((tt + r) % 9), (3 * r + c) % 10, (7 * c) % 10>>
\* the length the reference document gives the flat sequence of selector tt
RefLen(tt) == (FULL_ROUNDS + PARTIAL_ROUNDS[tt - 1]) * tt
DefectKinds == {"c_short", "c_long", "c_missing", "c_dup",
                "m_missing", "m_short_row", "m_extra_row"}
DefectSelectors == {2, 17}
Variants == {[kind |-> "ok", sel |-> 0]}
            \cup [kind : DefectKinds, sel : DefectSelectors]

SelNum(tt) == IF tt < 10 THEN <<tt>> ELSE <<tt \div 10, tt % 10>>
CLit(tt, len) == [k \in 1..len |-> CNum(tt, k)]
MLit(tt, rows, lastlen) ==
    [r \in 1..rows |->
        [c \in 1..(IF r = rows THEN lastlen ELSE tt) |-> MNum(tt, r, c)]]

CMatches(v) ==
    [n \in 1..16 |->
        LET tt == n + 1
            len == RefLen(tt) + (IF v.sel # tt THEN 0
                                      ELSE IF v.kind = "c_short" THEN -1
                                      ELSE IF v.kind = "c_long" THEN 1 ELSE 0)
        IN Match(SelNum(tt), 1, CLit(tt, len))]
MMatches(v) ==
    [n \in 1..16 |->
        LET tt == n + 1
            rows == IF v.sel = tt /\ v.kind = "m_extra_row" THEN tt + 1 ELSE tt
            lastlen == IF v.sel = tt /\ v.kind = "m_short_row" THEN tt - 1 ELSE tt
        IN Match(SelNum(tt), 2, MLit(tt, rows, lastlen))]
Without(ms, tt) == SelectSeq(ms, LAMBDA x : x.sel # SelNum(tt))
\* the duplicate match of a c_dup document: same selector, other values
DupMatch(tt) == Match(SelNum(tt), 1, CLit(tt + 1, RefLen(tt)))

FullDoc(v) ==
    <<MarkerC>>
    \o (IF v.kind = "c_missing" THEN Without(CMatches(v), v.sel) ELSE CMatches(v))
    \o (IF v.kind = "c_dup" THEN <<DupMatch(v.sel)>> ELSE <<>>)
    \o <<MarkerM>>
    \o (IF v.kind = "m_missing" THEN Without(MMatches(v), v.sel) ELSE MMatches(v))
FullDocs == {FullDoc(v) : v \in Variants}

----------------------------------------------------------------------------
(* gen_constants.py *)

Count(s, sep) == Cardinality({j \in 1..Len(s) : s[j].k = sep})
\* position of the n-th separator of s; 0 for n = 0, Len(s)+1 past the last
SepPos(s, sep, n) ==
    IF n = 0 THEN 0
    ELSE IF n > Count(s, sep) THEN Len(s) + 1
    ELSE CHOOSE j \in 1..Len(s) :
            /\ s[j].k = sep
            /\ Cardinality({h \in 1..j : s[h].k = sep}) = n
\* str.split(sep): the pieces of s between the separators
Split(s, sep) ==
    [n \in 1..(Count(s, sep) + 1) |->
        SubSeq(s, SepPos(s, sep, n - 1) + 1, SepPos(s, sep, n) - 1)]

\* re.findall: the matches of the region, in document order
Findall(region) == SelectSeq(region, LAMBDA x : x.k = "match")

Raise(e) == /\ pc' = "error"
            /\ err' = e

GenInit ==
    /\ prog = "gen_constants.py"
    /\ pc = "split_C"
    /\ err = ""
    /\ \/ /\ data \in SmallDocs
          /\ \/ constants_py = Absent /\ lib_rs = Absent
             \/ constants_py = PriorConstants /\ lib_rs = PriorLib
       \/ /\ data \in FullDocs
          /\ constants_py = PriorConstants
          /\ lib_rs = PriorLib
    /\ C_data = <<>> /\ M_data = <<>> /\ match = <<>>
    /\ C = EmptyDict /\ M = EmptyDict
    /\ indent_level = 0 /\ indent_low = 0
    /\ OUT = <<>>

\* line 8: C_data = data.split("POSEIDON_C")[1].split("POSEIDON_M")[0]
SplitC ==
    /\ prog = "gen_constants.py" /\ pc = "split_C"
    /\ LET parts == Split(data, "POSEIDON_C") IN
       IF Len(parts) < 2
       THEN Raise("IndexError") /\ UNCHANGED C_data
       ELSE /\ C_data' = Split(parts[2], "POSEIDON_M")[1]
            /\ pc' = "split_M"
            /\ err' = err
    /\ UNCHANGED <<prog, data, M_data, match, C, M, constants_py, lib_rs,
                   indent_level, indent_low, OUT, hvars>>

\* line 9 with the last piece taken instead of the second one
SplitMLastPiece ==
    /\ prog = "gen_constants.py" /\ pc = "split_M"
    /\ LET parts == Split(data, "POSEIDON_M") IN
        /\ M_data' = parts[Len(parts)]
        /\ pc' = "extract_C"
    /\ UNCHANGED <<prog, err, data, C_data, match, C, M, constants_py, lib_rs,
                   indent_level, indent_low, OUT, hvars>>

\* line 9: M_data = data.split("POSEIDON_M")[1]
SplitM ==
    /\ prog = "gen_constants.py" /\ pc = "split_M"
    /\ LET parts == Split(data, "POSEIDON_M") IN
       IF Len(parts) < 2
       THEN Raise("IndexError") /\ UNCHANGED M_data
       ELSE /\ M_data' = parts[2]
            /\ pc' = "extract_C"
            /\ err' = err
    /\ UNCHANGED <<prog, data, C_data, match, C, M, constants_py, lib_rs,
                   indent_level, indent_low, OUT, hvars>>

\* an insertion that keeps the item a key already has
SetItemKeepFirst(d, sel, val) == d @@ (ParseDec(sel) :> val)

\* d[int(i)] = eval(c): the new item replaces an item of the same key
SetItem(d, sel, val) == (ParseDec(sel) :> val) @@ d

RECURSIVE Fill(_, _, _)
\* for i, c in match: d[int(i)] = eval(c), from the j-th match on; the loop
\* stops at the first literal eval rejects
Fill(d, ms, j) ==
    IF d.err # "" \/ j > Len(ms) THEN d
    ELSE IF ~EvalOk(ms[j].nest, ms[j].lit) THEN [d EXCEPT !.err = "SyntaxError"]
    ELSE Fill([d EXCEPT !.dict = SetItem(@, ms[j].sel, Eval(ms[j].nest, ms[j].lit))],
              ms, j + 1)

\* lines 12-15: C = {}; match = re.findall(..., C_data, re.DOTALL);
\* for i, c in match: C[int(i)] = eval(c)
ExtractC ==
    /\ prog = "gen_constants.py" /\ pc = "extract_C"
    /\ match' = Findall(C_data)
    /\ LET d == Fill([dict |-> EmptyDict, err |-> ""], Findall(C_data), 1) IN
        /\ C' = d.dict
        /\ IF d.err # "" THEN Raise(d.err)
           ELSE pc' = "extract_M" /\ err' = err
    /\ UNCHANGED <<prog, data, C_data, M_data, M, constants_py, lib_rs,
                   indent_level, indent_low, OUT, hvars>>

\* lines 17-20: the same for M and M_data
ExtractM ==
    /\ prog = "gen_constants.py" /\ pc = "extract_M"
    /\ match' = Findall(M_data)
    /\ LET d == Fill([dict |-> EmptyDict, err |-> ""], Findall(M_data), 1) IN
        /\ M' = d.dict
        /\ IF d.err # "" THEN Raise(d.err)
           ELSE pc' = "open_out" /\ err' = err
    /\ UNCHANGED <<prog, data, C_data, M_data, C, constants_py, lib_rs,
                   indent_level, indent_low, OUT, hvars>>

\* line 22: open("constants.py", "w") creates or truncates the file
OpenOut ==
    /\ prog = "gen_constants.py" /\ pc = "open_out"
    /\ constants_py' = File(<<>>)
    /\ pc' = "write_out"
    /\ UNCHANGED <<prog, err, data, C_data, M_data, match, C, M, lib_rs,
                   indent_level, indent_low, OUT, hvars>>

\* lines 23-24: f.write(f"{C = }\n"); f.write(f"{M = }\n"); the file is closed
WriteOut ==
    /\ prog = "gen_constants.py" /\ pc = "write_out"
    /\ constants_py' = File(<<[name |-> "C", val |-> ReprDict(C)],
                              [name |-> "M", val |-> ReprDict(M)]>>)
    /\ pc' = "exit"
    /\ UNCHANGED <<prog, err, data, C_data, M_data, match, C, M, lib_rs,
                   indent_level, indent_low, OUT, hvars>>

----------------------------------------------------------------------------
(* gen_rs.py.  An appended string is the token <<units, kind, arg>>: the    *)
(* number of INDENT units in front of it, what it is, and its argument (the *)
(* selector of an "if", the numeral of a literal).  A render state st holds *)
(* indent_level, its lowest value so far, the text built and the exception. *)

Tok(units, kind, arg) == <<units, kind, arg>>

\* a range that stops one selector early
ArkSelectorsShort == 2..16
\* range(2, 18) of line 35 and of line 63
ArkSelectors == 2..17
MdsSelectors == 2..17
\* a round count without the full rounds
RoundsPartialOnly(tt) == PARTIAL_ROUNDS[tt - 1]
\* line 40: FULL_ROUNDS + PARTIAL_ROUNDS[t - 2]
Rounds(tt) == FULL_ROUNDS + PARTIAL_ROUNDS[tt - 1]

\* ind: indent_level * INDENT + text (a negative count repeats nothing)
ind(st, kind, arg) ==
    [st EXCEPT !.text = Append(@, Tok(IF st.level > 0 THEN st.level ELSE 0, kind, arg))]

\* ind_in: ret = ind(text); indent_level += 1
ind_in(st, kind, arg) == [ind(st, kind, arg) EXCEPT !.level = @ + 1]

\* an ind_out that does not decrement
ind_out_keep(st, kind, arg) == ind(st, kind, arg)

\* ind_out: indent_level -= 1; return ind(text)
ind_out(st, kind, arg) ==
    ind([st EXCEPT !.level = @ - 1, !.low = Min(@, st.level - 1)], kind, arg)

\* X += text, without a call of ind
raw(st, kind, arg) == [st EXCEPT !.text = Append(@, Tok(0, kind, arg))]

\* indent_level += 1
inc(st) == [st EXCEPT !.level = @ + 1]

Start(text) == [level |-> indent_level, low |-> indent_low, text |-> text, err |-> ""]

RECURSIVE ArkLits(_, _, _, _)
\* lines 42-44: for i in range(t): key = C[t][rnd * t + i]; ARK += ind(...)
ArkLits(st, tt, rnd, ii) ==
    IF st.err # "" \/ ii = tt THEN st
    ELSE IF tt \notin DOMAIN C THEN [st EXCEPT !.err = "KeyError"]
    ELSE IF rnd * tt + ii >= Len(C[tt].v) THEN [st EXCEPT !.err = "IndexError"]
    ELSE ArkLits(ind(st, "lit", Str(C[tt].v[rnd * tt + ii + 1])), tt, rnd, ii + 1)

RECURSIVE ArkRows(_, _, _)
\* lines 40-45: for rnd in range(FULL_ROUNDS + PARTIAL_ROUNDS[t - 2])
ArkRows(st, tt, rnd) ==
    IF st.err # "" \/ rnd = Rounds(tt) THEN st
    ELSE LET s1 == ArkLits(ind_in(st, "vec![", <<>>), tt, rnd, 0)
         IN IF s1.err # "" THEN s1
            ELSE ArkRows(ind_out(s1, "],", <<>>), tt, rnd + 1)

\* lines 36-47: the body of  for t in range(2, 18)  in gen_ark
ArkBranch(st, tt) ==
    LET s1 == ind_in(inc(raw(st, "if", <<tt>>)), "vec![", <<>>)
        s2 == ArkRows(s1, tt, 0)
    IN IF s2.err # "" THEN s2
       ELSE ind_out(ind_out(s2, "]", <<>>), "} else ", <<>>)

RECURSIVE MdsLits(_, _, _)
\* lines 70-71: for num in row: MDS += ind(...)
MdsLits(st, row, j) ==
    IF st.err # "" \/ j > Len(row) THEN st
    ELSE MdsLits(ind(st, "lit", Str(row[j])), row, j + 1)

RECURSIVE MdsRows(_, _, _)
\* lines 68-72: for row in M[t]
MdsRows(st, rows, r) ==
    IF st.err # "" \/ r > Len(rows) THEN st
    ELSE MdsRows(ind_out(MdsLits(ind_in(st, "vec![", <<>>), rows[r], 1), "],", <<>>),
                 rows, r + 1)

\* lines 64-74: the body of  for t in range(2, 18)  in gen_mds
MdsBranch(st, tt) ==
    LET s1 == ind_in(inc(raw(st, "if", <<tt>>)), "vec![", <<>>)
    IN IF tt \notin DOMAIN M THEN [s1 EXCEPT !.err = "KeyError"]
       ELSE IF M[tt].nest # 2 /\ M[tt].v # <<>> THEN [s1 EXCEPT !.err = "TypeError"]
       ELSE ind_out(ind_out(MdsRows(s1, M[tt].v, 1), "]", <<>>), "} else ", <<>>)

\* lines 49-54 and 76-80: the terminal branch and the end of the function
TerminalBranch(st) ==
    ind_out(ind_out(ind(inc(raw(st, "{", <<>>)), "panic", <<>>), "}", <<>>), "}", <<>>)

\* line 4 in a new process, after gen_constants.py ended without an error:
\* from constants import C, M; line 12: indent_level = 0
Import ==
    /\ prog = "gen_constants.py" /\ pc = "exit"
    /\ prog' = "gen_rs.py"
    /\ pc' = "open_lib"
    /\ C' = ParseDict(constants_py.text[1].val)
    /\ M' = ParseDict(constants_py.text[2].val)
    /\ data' = <<>> /\ C_data' = <<>> /\ M_data' = <<>> /\ match' = <<>>
    /\ indent_level' = 0 /\ indent_low' = 0
    /\ UNCHANGED <<err, constants_py, lib_rs, OUT, hvars>>

\* lines 86-108: open("src/lib.rs", "w") creates or truncates the file and the
\* preamble is written to it
OpenLib ==
    /\ prog = "gen_rs.py" /\ pc = "open_lib"
    /\ lib_rs' = File(<<Tok(0, "preamble", PARTIAL_ROUNDS \o <<FULL_ROUNDS>>)>>)
    /\ pc' = "gen_ark"
    /\ UNCHANGED <<prog, err, data, C_data, M_data, match, C, M, constants_py,
                   indent_level, indent_low, OUT, hvars>>

RECURSIVE ArkLoop(_, _)
\* lines 35-47: for t in range(2, 18), from selector tt on
ArkLoop(st, tt) ==
    IF st.err # "" \/ tt \notin ArkSelectors THEN st
    ELSE LET b == ArkBranch([st EXCEPT !.text = <<>>], tt)
         IN ArkLoop([b EXCEPT !.text = st.text \o b.text], tt + 1)

RECURSIVE MdsLoop(_, _)
\* lines 63-74: for t in range(2, 18), from selector tt on
MdsLoop(st, tt) ==
    IF st.err # "" \/ tt \notin MdsSelectors THEN st
    ELSE LET b == MdsBranch([st EXCEPT !.text = <<>>], tt)
         IN MdsLoop([b EXCEPT !.text = st.text \o b.text], tt + 1)

\* lines 29-55: gen_ark()
gen_ark(st) ==
    LET s1 == ArkLoop(ind(ind_in(st, "fn get_ark", <<>>), "", <<>>), 2)
    IN IF s1.err # "" THEN s1 ELSE TerminalBranch(s1)

\* lines 57-82: gen_mds()
gen_mds(st) ==
    LET s1 == MdsLoop(ind(ind_in(st, "fn get_mds", <<>>), "", <<>>), 2)
    IN IF s1.err # "" THEN s1 ELSE TerminalBranch(s1)

\* lines 111-112: OUT = gen_ark(); OUT += "\n"
GenArk ==
    /\ prog = "gen_rs.py" /\ pc = "gen_ark"
    /\ LET st == gen_ark(Start(<<>>)) IN
        /\ indent_level' = st.level
        /\ indent_low' = st.low
        /\ IF st.err # ""
           THEN Raise(st.err) /\ UNCHANGED OUT
           ELSE /\ OUT' = Append(st.text, Tok(0, "\n", <<>>))
                /\ pc' = "gen_mds"
                /\ err' = err
    /\ UNCHANGED <<prog, data, C_data, M_data, match, C, M, constants_py,
                   lib_rs, hvars>>

\* line 113: OUT += gen_mds()
GenMds ==
    /\ prog = "gen_rs.py" /\ pc = "gen_mds"
    /\ LET st == gen_mds(Start(<<>>)) IN
        /\ indent_level' = st.level
        /\ indent_low' = st.low
        /\ IF st.err # ""
           THEN Raise(st.err) /\ UNCHANGED OUT
           ELSE /\ OUT' = OUT \o st.text
                /\ pc' = "write_lib"
                /\ err' = err
    /\ UNCHANGED <<prog, data, C_data, M_data, match, C, M, constants_py,
                   lib_rs, hvars>>

\* lines 115-117: print(OUT); f.write(OUT); the file is closed
WriteLib ==
    /\ prog = "gen_rs.py" /\ pc = "write_lib"
    /\ lib_rs' = File(lib_rs.text \o OUT)
    /\ pc' = "done"
    /\ UNCHANGED <<prog, err, data, C_data, M_data, match, C, M, constants_py,
                   indent_level, indent_low, OUT, hvars>>

----------------------------------------------------------------------------
(* script.py.  Durations and wall-clock timestamps of the records are not   *)
(* modelled; a text is the sequence of its code points.                     *)

None == [none |-> TRUE, text |-> <<>>]
Text(cp) == [none |-> FALSE, text |-> cp]
\* "No poll timestamp found" and the message of the timing checks
NoPollMsg == Text(<<78, 111>>)
MissingMsg == Text(<<77, 105>>)

\* what a client process can write to stderr: "e", "é" in UTF-8, and a
\* byte that no UTF-8 text contains
Stderrs == {<<101>>, <<195, 169>>, <<255>>}

RECURSIVE Utf8Valid(_)
\* bytes.decode() accepts b (one- and two-byte forms are modelled)
Utf8Valid(b) ==
    IF b = <<>> THEN TRUE
    ELSE IF b[1] < 128 THEN Utf8Valid(Tail(b))
    ELSE IF b[1] >= 194 /\ b[1] <= 223 /\ Len(b) >= 2 /\ b[2] >= 128 /\ b[2] <= 191
         THEN Utf8Valid(SubSeq(b, 3, Len(b)))
    ELSE FALSE

RECURSIVE Utf8Decode(_)
\* bytes.decode() of valid UTF-8: the code points
Utf8Decode(b) ==
    IF b = <<>> THEN <<>>
    ELSE IF b[1] < 128 THEN <<b[1]>> \o Utf8Decode(Tail(b))
    ELSE <<(b[1] - 192) * 64 + (b[2] - 128)>> \o Utf8Decode(SubSeq(b, 3, Len(b)))

\* lines 107-113: the result of run_command for a process that ended with
\* this exit code and stderr; raised when e.stderr.decode() raises
run_command(code, stderr) ==
    IF code = 0 THEN [raised |-> FALSE, success |-> TRUE, error |-> Text(<<>>)]
    ELSE IF ~Utf8Valid(stderr) THEN [raised |-> TRUE, success |-> FALSE, error |-> None]
    ELSE [raised |-> FALSE, success |-> FALSE, error |-> Text(Utf8Decode(stderr))]

\* {"duration": duration, "success": success, "error": error if not success else None}
ActionRecord(res) ==
    [success |-> res.success, error |-> IF ~res.success THEN res.error ELSE None]

EmptyActions == [k \in {} |-> 0]
NoIteration == [iteration |-> 0, actions |-> EmptyActions, timing_check_error |-> None]
\* a record left in the log by an earlier experiment
OldRecord == [iteration |-> 100, actions |-> EmptyActions, timing_check_error |-> None]

\* the outcomes the environment can give a client process: exit code 0, or
\* a non-zero code with some stderr, which counts as a fault
Outcomes == {<<0, <<>>>>} \cup {<<1, e>> : e \in Stderrs}
CanFault == faults < MaxFaults
Allowed(o) == o[1] = 0 \/ CanFault
Charge(o) == faults' = IF o[1] = 0 THEN faults ELSE faults + 1

HInit ==
    /\ hpc = "clean"
    /\ i = 0
    /\ iteration_log = NoIteration
    /\ log_file \in {Absent, File(<<OldRecord>>)}
    /\ ts_rep = None /\ ts = None
    /\ exit_code = 0
    /\ faults = 0

\* lines 17-49: clean_previous_results(); os.remove(OUTPUT_FILE) may raise,
\* which is caught and printed
Clean ==
    /\ hpc = "clean"
    /\ \/ log_file' = Absent /\ faults' = faults
       \/ log_file.exists /\ CanFault /\ log_file' = log_file /\ faults' = faults + 1
    /\ hpc' = "join"
    /\ UNCHANGED <<i, iteration_log, ts_rep, ts, exit_code, genvars>>

\* lines 194, 198, 206, 213: a command whose result is dropped
SetupCommand(here, next) ==
    /\ hpc = here
    /\ \E o \in Outcomes :
        /\ Allowed(o) /\ Charge(o)
        /\ exit_code' = o[1]
        /\ hpc' = IF run_command(o[1], o[2]).raised THEN "aborted" ELSE next
    /\ UNCHANGED <<i, iteration_log, log_file, ts_rep, ts, genvars>>

Join == SetupCommand("join", "gen_pseudo")
GenPseudo == SetupCommand("gen_pseudo", "new_context")
NewContext == SetupCommand("new_context", "get_context")
GetContext == SetupCommand("get_context", "iter")

\* lines 312-317: the next iteration starts with an empty record
IterStart ==
    /\ hpc = "iter" /\ i < NUM_ITERATIONS
    /\ i' = i + 1
    /\ iteration_log' = [iteration |-> i + 1, actions |-> EmptyActions,
                         timing_check_error |-> None]
    /\ hpc' = "rate_pseudo_post"
    /\ UNCHANGED <<log_file, ts_rep, ts, exit_code, faults, genvars>>

\* duration, success, error = run_command([...]);
\* iteration_log["actions"][key] = {...}
Command(here, key, next) ==
    /\ hpc = here
    /\ \E o \in Outcomes :
        /\ Allowed(o) /\ Charge(o)
        /\ exit_code' = o[1]
        /\ LET res == run_command(o[1], o[2]) IN
           IF res.raised
           THEN hpc' = "aborted" /\ UNCHANGED iteration_log
           ELSE /\ iteration_log' =
                     [iteration_log EXCEPT !.actions = (key :> ActionRecord(res)) @@ @]
                /\ hpc' = next
    /\ UNCHANGED <<i, log_file, ts_rep, ts, genvars>>

RatePseudoPost == Command("rate_pseudo_post", "rate_pseudo_post", "pseudonym_post")
PseudonymPost == Command("pseudonym_post", "pseudonym_post", "ts_rep")
Reaction == Command("reaction", "reaction", "rep")
Rep == Command("rep", "rep", "badge")
Badge == Command("badge", "badge", "poll")
Poll == Command("poll", "poll", "ts")
Authorship == Command("authorship", "authorship", "checks")

\* lines 89-95 and 98-104: the timestamp of the last line of a server log,
\* None when the log is empty; open() raises when there is no log
\* line 339: ts_rep = get_latest_zkpair_timestamp()
ReadTsRep ==
    /\ hpc = "ts_rep"
    /\ \/ ts_rep' \in {None, Text(<<49>>)} /\ hpc' = "reaction" /\ faults' = faults
       \/ CanFault /\ faults' = faults + 1 /\ hpc' = "aborted" /\ ts_rep' = ts_rep
    /\ UNCHANGED <<i, iteration_log, log_file, ts, exit_code, genvars>>

\* line 375: ts = get_latest_poll_timestamp()
ReadTs ==
    /\ hpc = "ts"
    /\ \/ ts' = Text(<<50>>) /\ hpc' = "vote" /\ faults' = faults
       \/ CanFault /\ faults' = faults + 1 /\ ts' = None /\ hpc' = "vote"
       \/ CanFault /\ faults' = faults + 1 /\ ts' = ts /\ hpc' = "aborted"
    /\ UNCHANGED <<i, iteration_log, log_file, ts_rep, exit_code, genvars>>

\* lines 377-387: the vote runs only when a poll timestamp was found
Vote ==
    \/ ts # None /\ Command("vote", "vote", "authorship")
    \/ /\ hpc = "vote" /\ ts = None
       /\ iteration_log' = [iteration_log EXCEPT !.actions =
              ("vote" :> [success |-> FALSE, error |-> NoPollMsg]) @@ @]
       /\ hpc' = "authorship"
       /\ UNCHANGED <<i, log_file, ts_rep, ts, exit_code, faults, genvars>>

\* lines 398-418: the three checks; a RuntimeError is caught and recorded
Checks ==
    /\ hpc = "checks"
    /\ \/ UNCHANGED <<iteration_log, faults>>
       \/ /\ CanFault /\ faults' = faults + 1
          /\ iteration_log' = [iteration_log EXCEPT !.timing_check_error = MissingMsg]
    /\ hpc' = "append"
    /\ UNCHANGED <<i, log_file, ts_rep, ts, exit_code, genvars>>

\* lines 115-124: data is the list in the file, [] when there is no file;
\* data.append(entry); the file is rewritten with data
append_log(file, entry) ==
    File(Append(IF file.exists THEN file.text ELSE <<>>, entry))

\* line 420: append_log(iteration_log)
AppendLog ==
    /\ hpc = "append"
    /\ log_file' = append_log(log_file, iteration_log)
    /\ hpc' = "iter"
    /\ UNCHANGED <<i, iteration_log, ts_rep, ts, exit_code, faults, genvars>>

\* line 425: after the last iteration, run_notebook(...)
RunNotebook ==
    /\ hpc = "iter" /\ i >= NUM_ITERATIONS
    /\ hpc' = "done"
    /\ UNCHANGED <<i, iteration_log, log_file, ts_rep, ts, exit_code, faults, genvars>>

----------------------------------------------------------------------------
(* Specifications *)

HIdle ==
    /\ hpc = "off" /\ i = 0 /\ iteration_log = NoIteration /\ log_file = Absent
    /\ ts_rep = None /\ ts = None /\ exit_code = 0 /\ faults = 0

GenIdle ==
    /\ prog = "off" /\ pc = "off" /\ err = ""
    /\ data = <<>> /\ C_data = <<>> /\ M_data = <<>> /\ match = <<>>
    /\ C = EmptyDict /\ M = EmptyDict
    /\ constants_py = Absent /\ lib_rs = Absent
    /\ indent_level = 0 /\ indent_low = 0
    /\ OUT = <<>>

\* the two generator scripts, run one after the other
Init == GenInit /\ HIdle

Next ==
    \/ SplitC \/ SplitM \/ ExtractC \/ ExtractM \/ OpenOut \/ WriteOut
    \/ Import \/ OpenLib \/ GenArk \/ GenMds \/ WriteLib

Spec == Init /\ [][Next]_vars

\* the experiment harness
HarnessInit == HInit /\ GenIdle

HarnessNext ==
    \/ Clean \/ Join \/ GenPseudo \/ NewContext \/ GetContext
    \/ IterStart \/ RatePseudoPost \/ PseudonymPost \/ ReadTsRep
    \/ Reaction \/ Rep \/ Badge \/ Poll \/ ReadTs \/ Vote \/ Authorship
    \/ Checks \/ AppendLog \/ RunNotebook

SpecHarness == HarnessInit /\ [][HarnessNext]_vars

----------------------------------------------------------------------------
(* Reading the generated module: what get_ark(x) and get_mds(x) return      *)

\* the positions lo..hi of txt that hold a token of this kind, ascending
Where(txt, lo, hi, kind) ==
    SelectSeq([j \in 1..(hi - lo + 1) |-> lo + j - 1], LAMBDA q : txt[q][2] = kind)
Kinds(txt) == [j \in 1..Len(txt) |-> txt[j][2]]

\* the tokens of the function: after its header, up to the next header
Body(txt, name) ==
    LET heads == {q \in 1..Len(txt) : txt[q][2] \in {"fn get_ark", "fn get_mds"}}
        p == CHOOSE q \in heads : txt[q][2] = name
        after == {q \in heads : q > p}
        stop == IF after = {} THEN Len(txt) + 1
                ELSE CHOOSE q \in after : \A q2 \in after : q <= q2
    IN SelectSeq(SubSeq(txt, p + 1, stop - 1), LAMBDA x : x[2] # "\n")

\* the function as a cascade: where its tests and its "} else " are, the
\* selectors it tests in order, and the tokens after the last "} else "
Parse(txt, name) ==
    LET body == Body(txt, name)
        ifs == Where(body, 1, Len(body), "if")
        elses == Where(body, 1, Len(body), "} else ")
    IN [body |-> body, ifs |-> ifs, elses |-> elses,
        tested |-> [n \in 1..Len(ifs) |-> body[ifs[n]][3][1]],
        terminal |-> IF elses = <<>> THEN <<>>
                     ELSE SubSeq(body, elses[Len(elses)] + 1, Len(body))]

\* the rows of  vec![ vec![..], vec![..], ]  between positions lo and hi
VecRows(body, lo, hi) ==
    LET opens == Where(body, lo + 1, hi - 1, "vec![")
        closes == Where(body, lo + 1, hi - 1, "],")
    IN [r \in 1..Len(opens) |->
          [c \in 1..(closes[r] - opens[r] - 1) |-> body[opens[r] + c][3]]]

\* branch n is  if t == k { vec![ rows ] } else  with every row  vec![ lits ],
WellFormedBranch(f, n) ==
    LET body == f.body
        lo == f.ifs[n] + 1
        hi == f.elses[n] - 1
        opens == Where(body, lo + 1, hi - 1, "vec![")
        closes == Where(body, lo + 1, hi - 1, "],")
    IN /\ lo < hi /\ body[lo][2] = "vec![" /\ body[hi][2] = "]"
       /\ Len(opens) = Len(closes)
       /\ \A r \in 1..Len(opens) :
            /\ opens[r] < closes[r]
            /\ r < Len(opens) => closes[r] + 1 = opens[r + 1]
            /\ \A q \in (opens[r] + 1)..(closes[r] - 1) : body[q][2] = "lit"
       /\ (opens = <<>> => hi = lo + 1)
       /\ (opens # <<>> => opens[1] = lo + 1 /\ closes[Len(closes)] = hi - 1)

\* the result of calling the accessor with x: the rows of the first branch
\* whose test is x, or the panic of the terminal branch
Call(f, x) ==
    LET hit == {n \in 1..Len(f.ifs) : f.tested[n] = x} IN
    IF hit = {} THEN [panic |-> TRUE, rows |-> <<>>]
    ELSE LET n == CHOOSE m \in hit : \A m2 \in hit : m <= m2
         IN [panic |-> FALSE,
             rows |-> VecRows(f.body, f.ifs[n] + 1, f.elses[n] - 1)]

Rendered == prog = "gen_rs.py" /\ pc = "done"

\* the integer a decimal numeral denotes, digit by digit from the left
RECURSIVE Denotes(_)
Denotes(d) ==
    IF d = <<>> THEN 0 ELSE Head(d) * (10 ^ (Len(d) - 1)) + Denotes(Tail(d))

----------------------------------------------------------------------------
(* Claims about the generator *)

\* C1: a generator run that ends in an error has not opened its output file
\* for writing: constants.py (gen_constants.py) and src/lib.rs (gen_rs.py)
\* are as they were before the run
C1_AbortBeforeWrite ==
    pc = "error" =>
        /\ prog = "gen_constants.py" => constants_py \in {Absent, PriorConstants}
        /\ prog = "gen_rs.py" => lib_rs \in {Absent, PriorLib}

\* C2: gen_ark returns only when, for every selector tt, the flat
\* sequence C[tt] has exactly (FULL_ROUNDS + PARTIAL_ROUNDS[tt-2]) * tt
\* elements; a shorter and a longer sequence both make it fail
C2_ExactLength ==
    \A tt \in Selectors :
        (prog = "gen_rs.py" /\ pc \in {"gen_mds", "write_lib", "done"}) =>
            Len(C[tt].v) = (FULL_ROUNDS + PARTIAL_ROUNDS[tt - 1]) * tt

\* C3: in the generated module, get_ark(tt) for tt in 2..17 returns
\* FULL_ROUNDS + PARTIAL_ROUNDS[tt-2] rows of tt entries, and the entry of
\* row r, column i is C[tt][r*tt + i]
C3_ArkRowMajor ==
    Rendered =>
        LET ark == Parse(lib_rs.text, "fn get_ark") IN
        \A tt \in Selectors :
            LET res == Call(ark, tt) IN
            /\ ~res.panic
            /\ Len(res.rows) = FULL_ROUNDS + PARTIAL_ROUNDS[tt - 1]
            /\ \A r \in 1..Len(res.rows) :
                /\ Len(res.rows[r]) = tt
                /\ \A c \in 1..tt :
                     Denotes(res.rows[r][c]) = C[tt].v[(r - 1) * tt + (c - 1) + 1]
C3_Witness ==
    /\ Rendered
    /\ Len(Call(Parse(lib_rs.text, "fn get_ark"), 17).rows) = 76
    /\ Len(C[17].v) = 76 * 17

\* C4: in the generated module, get_mds(tt) for tt in 2..17 returns tt rows
\* of tt entries each
C4_MdsSquare ==
    Rendered =>
        LET mds == Parse(lib_rs.text, "fn get_mds") IN
        \A tt \in Selectors :
            LET res == Call(mds, tt) IN
            /\ Len(res.rows) = tt
            /\ \A r \in 1..Len(res.rows) : Len(res.rows[r]) = tt

\* C5: both accessors test exactly the selectors 2, 3, ..., 17 in this order
\* and end in one unconditional branch that panics with t; they panic for
\* every x outside 2..17 and for no x inside
CallArgs == 0..19
CascadeOf(f) ==
    /\ f.tested = [n \in 1..16 |-> n + 1]
    /\ Len(f.elses) = 16
    /\ \A n \in 1..16 : f.ifs[n] < f.elses[n] /\ WellFormedBranch(f, n)
    /\ \A n \in 1..15 : f.ifs[n + 1] = f.elses[n] + 1
    /\ Kinds(f.terminal) = <<"{", "panic", "}", "}">>
    /\ \A x \in CallArgs : Call(f, x).panic <=> x \notin 2..17
C5_Cascade ==
    Rendered => /\ CascadeOf(Parse(lib_rs.text, "fn get_ark"))
                /\ CascadeOf(Parse(lib_rs.text, "fn get_mds"))
C5_Witness ==
    /\ Rendered
    /\ Call(Parse(lib_rs.text, "fn get_ark"), 18).panic
    /\ Call(Parse(lib_rs.text, "fn get_mds"), 1).panic
    /\ ~Call(Parse(lib_rs.text, "fn get_ark"), 2).panic
    /\ ~Call(Parse(lib_rs.text, "fn get_mds"), 17).panic

\* C6: when a region marker is absent from the document, gen_constants.py
\* stops with an error at one of the two split lines: no region is scanned,
\* no table is built and constants.py is not opened for writing
MarkerAbsent ==
    Count(data, "POSEIDON_C") = 0 \/ Count(data, "POSEIDON_M") = 0
C6_MissingMarker ==
    (prog = "gen_constants.py" /\ MarkerAbsent) =>
        /\ pc \in {"split_C", "split_M", "error"}
        /\ pc = "error" => err = "IndexError"
        /\ match = <<>> /\ M_data = <<>>
        /\ C = EmptyDict /\ M = EmptyDict
        /\ constants_py \in {Absent, PriorConstants}
C6_Witness ==
    /\ prog = "gen_constants.py" /\ pc = "error"
    /\ Count(data, "POSEIDON_C") > 0 /\ Count(data, "POSEIDON_M") = 0
    /\ Count(data, "match") > 0
    /\ C_data # <<>>
    /\ constants_py = PriorConstants

\* C7: after both loops each table maps every selector matched in its own
\* region to the value of the last match of that selector in the region,
\* and has no other key
FirstPos(doc, kind) ==
    CHOOSE j \in 1..Len(doc) :
        doc[j].k = kind /\ \A h \in 1..(j - 1) : doc[h].k # kind
\* the first position after p that holds one of the kinds, or the end
NextPos(doc, p, kinds) ==
    LET after == {j \in (p + 1)..Len(doc) : doc[j].k \in kinds} IN
    IF after = {} THEN Len(doc) + 1
    ELSE CHOOSE j \in after : \A j2 \in after : j <= j2
RegionC(doc) ==
    LET p == FirstPos(doc, "POSEIDON_C") IN
    SubSeq(doc, p + 1, NextPos(doc, p, {"POSEIDON_C", "POSEIDON_M"}) - 1)
RegionM(doc) ==
    LET p == FirstPos(doc, "POSEIDON_M") IN
    SubSeq(doc, p + 1, NextPos(doc, p, {"POSEIDON_M"}) - 1)
MatchesOf(region) == SelectSeq(region, LAMBDA x : x.k = "match")
LastOf(ms, k) ==
    CHOOSE j \in 1..Len(ms) :
        /\ Denotes(ms[j].sel) = k
        /\ \A j2 \in (j + 1)..Len(ms) : Denotes(ms[j2].sel) # k
\* the values the numerals of a list literal denote
Values(m) ==
    IF m.nest = 1 THEN [j \in 1..Len(m.lit) |-> Denotes(m.lit[j])]
    ELSE [r \in 1..Len(m.lit) |-> [j \in 1..Len(m.lit[r]) |-> Denotes(m.lit[r][j])]]
LastWins(ms) ==
    [k \in {Denotes(ms[j].sel) : j \in 1..Len(ms)} |->
        PyList(ms[LastOf(ms, k)].nest, Values(ms[LastOf(ms, k)]))]
Extracted == prog = "gen_constants.py" /\ pc \in {"open_out", "write_out", "exit"}
C7_LastWins ==
    Extracted =>
        /\ C = LastWins(MatchesOf(RegionC(data)))
        /\ M = LastWins(MatchesOf(RegionM(data)))
C7_Witness ==
    /\ Extracted
    /\ LET ms == MatchesOf(RegionC(data)) IN
       \E j1, j2 \in 1..Len(ms) :
          /\ j1 < j2 /\ j2 = Len(ms)
          /\ ms[j1].sel # ms[j2].sel
          /\ Denotes(ms[j1].sel) = Denotes(ms[j2].sel)
          /\ Len(ms[j1].lit) # Len(ms[j2].lit)
          /\ C[Denotes(ms[j2].sel)].v = Values(ms[j2])
    /\ MatchesOf(RegionM(data)) # <<>>

\* C8: every value goes through the pipeline unchanged: the tables hold the
\* integers the numerals of the document denote, the tables gen_rs.py
\* imports from constants.py are the tables gen_constants.py built, and
\* every F::from_str literal of the generated module denotes the table entry
\* of its position
C8_Extracted ==
    Extracted =>
        /\ \A k \in DOMAIN C :
             LET ms == MatchesOf(RegionC(data)) IN C[k].v = Values(ms[LastOf(ms, k)])
        /\ \A k \in DOMAIN M :
             LET ms == MatchesOf(RegionM(data)) IN M[k].v = Values(ms[LastOf(ms, k)])
C8_Imported == (prog = "gen_constants.py" /\ prog' = "gen_rs.py") => (C' = C /\ M' = M)
C8_Rendered ==
    Rendered =>
        LET ark == Parse(lib_rs.text, "fn get_ark")
            mds == Parse(lib_rs.text, "fn get_mds")
        IN \A tt \in Selectors :
            /\ LET rows == Call(ark, tt).rows IN
               /\ Len(rows) * tt <= Len(C[tt].v)
               /\ \A r \in 1..Len(rows) : \A c \in 1..Len(rows[r]) :
                    Denotes(rows[r][c]) = C[tt].v[(r - 1) * tt + c]
            /\ LET rows == Call(mds, tt).rows IN
               /\ Len(rows) = Len(M[tt].v)
               /\ \A r \in 1..Len(rows) :
                    /\ Len(rows[r]) = Len(M[tt].v[r])
                    /\ \A c \in 1..Len(rows[r]) : Denotes(rows[r][c]) = M[tt].v[r][c]
C8_ValuesPreserved == [](C8_Extracted /\ C8_Rendered) /\ [][C8_Imported]_vars
C8_Witness ==
    /\ Rendered
    /\ Len(M[17].v) = 17 /\ Len(M[17].v[17]) = 17
    /\ C[2].v[1] > 255 /\ M[17].v[17][17] > 255
    /\ Call(Parse(lib_rs.text, "fn get_ark"), 2).rows[1][1] = Str(C[2].v[1])
    /\ Len(Call(Parse(lib_rs.text, "fn get_mds"), 17).rows) = 17

\* C9: indent_level is never negative, it is 0 again when gen_ark and when
\* gen_mds return, get_mds is emitted at the depth of get_ark, and the line
\* that opens a selector branch is at the depth of the line that closes it
UnitsOf(txt, kind) == txt[CHOOSE q \in 1..Len(txt) : txt[q][2] = kind][1]
BranchDepthsMatch(f) ==
    \A n \in 1..Len(f.ifs) :
        /\ f.ifs[n] > 1
        /\ f.body[f.ifs[n] - 1][2] \in {"", "} else "}
        /\ n <= Len(f.elses)
        /\ f.body[f.ifs[n] - 1][1] = f.body[f.elses[n]][1]
C9_IndentBalanced ==
    /\ indent_level >= 0 /\ indent_low >= 0
    /\ (prog = "gen_rs.py" /\ pc \in {"gen_mds", "write_lib", "done"}) => indent_level = 0
    /\ Rendered =>
        /\ UnitsOf(lib_rs.text, "fn get_mds") = UnitsOf(lib_rs.text, "fn get_ark")
        /\ BranchDepthsMatch(Parse(lib_rs.text, "fn get_ark"))
        /\ BranchDepthsMatch(Parse(lib_rs.text, "fn get_mds"))
C9_Witness ==
    /\ Rendered
    /\ indent_level = 0
    /\ \E q \in 1..Len(OUT) : OUT[q][2] = "lit" /\ OUT[q][1] = 4
    /\ \E q \in 1..Len(OUT) : OUT[q][2] = "} else " /\ OUT[q][1] = 1

----------------------------------------------------------------------------
(* Claims about the harness *)

SetupPcs == {"join", "gen_pseudo", "new_context", "get_context"}
LoopPcs == {"rate_pseudo_post", "pseudonym_post", "reaction", "rep", "badge",
            "poll", "vote", "authorship"}
Records(file) == IF file.exists THEN file.text ELSE <<>>
\* this step ran a client process that exited with a non-zero code
FailedCommandStep ==
    /\ hpc \in SetupPcs \cup LoopPcs
    /\ ~(hpc = "vote" /\ ts = None)
    /\ hpc' # hpc
    /\ exit_code' # 0

\* C10: a command that exits with a non-zero code does not abort the run:
\* in the main loop it is recorded with success = false and its error text,
\* and the iteration goes on; append_log keeps the earlier records and adds
\* one; from an absent log, after iteration i the log holds i records with
\* the iteration fields 1..i
C10_FailureRecorded ==
    FailedCommandStep =>
        /\ hpc' # "aborted"
        /\ hpc \in LoopPcs =>
            /\ i' = i
            /\ hpc \in DOMAIN iteration_log'.actions
            /\ ~iteration_log'.actions[hpc].success
            /\ iteration_log'.actions[hpc].error # None
C10_AppendKeeps ==
    hpc = "append" =>
        /\ Len(Records(log_file')) = Len(Records(log_file)) + 1
        /\ SubSeq(Records(log_file'), 1, Len(Records(log_file))) = Records(log_file)
        /\ Records(log_file')[Len(Records(log_file'))] = iteration_log
C10_LogAfterIteration ==
    (hpc = "iter" /\ (Records(log_file) = <<>> \/ Records(log_file)[1] # OldRecord)) =>
        /\ Len(Records(log_file)) = i
        /\ \A k \in 1..i : Records(log_file)[k].iteration = k
C10_HarnessLog ==
    /\ [][C10_FailureRecorded]_vars
    /\ [][C10_AppendKeeps]_vars
    /\ []C10_LogAfterIteration
\* the parts of C10 about the log alone
C10_LogOnly == [][C10_AppendKeeps]_vars /\ []C10_LogAfterIteration

====
